---- MODULE Spec2Model ----
(***************************************************************************)
(* TAP poll-mode driver (drivers/net/tap/rte_eth_tap.c): the per-queue     *)
(* descriptor registry, the device start/stop path, the RX/TX burst        *)
(* engines and the statistics aggregator.                                  *)
(*                                                                         *)
(* Spec        : queue/descriptor lifecycle (setup, release, stop, start). *)
(* SpecIO      : burst I/O and statistics on the queues of a created device.*)
(* SpecCreate  : device creation (probe) and removal.                      *)
(* SpecTun     : tun_alloc over the kernel's answers and the queue count    *)
(*               the driver is built with.                                 *)
(* SpecWorkers : one worker per queue half, the counter updates of the     *)
(*               bursts taken apart into their loads and stores.           *)
(***************************************************************************)
EXTENDS Integers, Sequences, FiniteSets, TLC

VARIABLES
    fds,        \* pmd_internals.fds[]          : qid -> fd number or -1
    rxq,        \* pmd_internals.rxq[]          : qid -> [mp, in_port, fd, stats]
    txq,        \* pmd_internals.txq[]          : qid -> [fd, stats]
    rx_queues,  \* dev->data->rx_queues[]       : qid -> published (non-NULL)
    tx_queues,  \* dev->data->tx_queues[]       : qid -> published (non-NULL)
    link_status,\* dev->data->dev_link.link_status
    port_id,    \* dev->data->port_id
    kfd,        \* the process's descriptor table: fd number -> kernel channel
    lastCall,   \* the most recent driver call: arguments, result, system calls
    allocated,  \* rte_eth_dev_allocated(name) != NULL: the device exists
    tun,        \* the most recent direct call of tun_alloc (SpecTun)
    wk          \* the workers running bursts: worker -> position in its call

vars == <<fds, rxq, txq, rx_queues, tx_queues, link_status, port_id, kfd, lastCall,
          allocated, tun, wk>>

---------------------------------------------------------------------------
(* Sizes.  The driver is built with RTE_PMD_TAP_MAX_QUEUES = 16; the model  *)
(* keeps the code and runs it with two queues, the least number on which   *)
(* queues can interfere with each other.  RTE_ETHDEV_QUEUE_STAT_CNTRS is    *)
(* the framework's size of the per-queue arrays of struct rte_eth_stats;   *)
(* it is taken below the queue count, so that tap_stats_get has to clip.   *)

RTE_PMD_TAP_MAX_QUEUES == 2
RTE_ETHDEV_QUEUE_STAT_CNTRS == 1
MaxFds == 3        \* descriptor numbers the process can still hand out
ThePort == 1       \* the port id the framework gave the device
MaxBurst == 2      \* nb_pkts of one burst call
MaxLen == 2        \* frame lengths 1..MaxLen
MaxTotal == 2      \* packets accounted in all counters together
MaxBuilt == 2      \* queue counts 1..MaxBuilt a build of tun_alloc is given

ETH_FRAME_LEN == 1514

ETH_LINK_DOWN == "ETH_LINK_DOWN"
ETH_LINK_UP == "ETH_LINK_UP"
IFF_MULTI_QUEUE == "IFF_MULTI_QUEUE"
IFF_ONE_QUEUE == "IFF_ONE_QUEUE"
ENOMEM == 12
EINVAL == 22

Qs == 0 .. (RTE_PMD_TAP_MAX_QUEUES - 1)

\* Descriptor numbers 0, 1, 2 are the process's standard streams.
FdNums == 3 .. (2 + MaxFds)

\* struct pkt_stats
ZeroPktStats == [opackets |-> 0, ipackets |-> 0, obytes |-> 0, ibytes |-> 0, errs |-> 0]

\* A buffer pool is known by the data room it leaves after the headroom.
Pools == {[buf_size |-> ETH_FRAME_LEN - 1], [buf_size |-> ETH_FRAME_LEN]}
NoPool == [buf_size |-> 0]     \* mp == NULL

---------------------------------------------------------------------------
(* The kernel side: descriptor table and system calls.                     *)

ClosedFd == [open |-> FALSE, owner |-> -1, flags |-> {}, nonblock |-> FALSE]

IsOpen(k, fd) == fd \in FdNums /\ k[fd].open

FreeFds(k) == {n \in FdNums : ~k[n].open}

OpenFds(k) == {n \in FdNums : k[n].open}

LowestFree(k) == CHOOSE n \in FreeFds(k) : \A m \in FreeFds(k) : n <= m

\* One system or buffer-pool call issued by the driver, as an instrumented
\* stub would log it: the descriptor and the buffer it names (-1: none) and
\* its result.
Sys(call, fd, buf, res) == [call |-> call, fd |-> fd, buf |-> buf, res |-> res]

IsWrite(x) == x.call = "write"
IsRead(x) == x.call = "read"
IsGoodAlloc(x) == x.call = "alloc" /\ x.res = 0
NotFree(x) == x.call /= "free"

\* close(fd): 0 when fd is an open descriptor, -1 (EBADF) otherwise.
sys_close(k, fd) ==
    IF IsOpen(k, fd)
    THEN [kfd |-> [k EXCEPT ![fd] = ClosedFd], trace |-> <<Sys("close", fd, -1, 0)>>]
    ELSE [kfd |-> k, trace |-> <<Sys("close", fd, -1, -1)>>]

\* What the kernel answers to one tun_alloc: which calls succeed, and the
\* feature bits TUNGETFEATURES reports.  An answer the code never asks for
\* (after an earlier call failed) is left at its default.
TunEnv(open, getfeatures, features, setiff, setfl) ==
    [open |-> open, getfeatures |-> getfeatures, features |-> features,
     setiff |-> setiff, setfl |-> setfl]

TunEnvs ==
    {TunEnv(FALSE, FALSE, {}, FALSE, FALSE), TunEnv(TRUE, FALSE, {}, FALSE, FALSE)}
    \cup {TunEnv(TRUE, TRUE, f, FALSE, FALSE) : f \in SUBSET {IFF_MULTI_QUEUE, IFF_ONE_QUEUE}}
    \cup {TunEnv(TRUE, TRUE, f, TRUE, b) : f \in SUBSET {IFF_MULTI_QUEUE, IFF_ONE_QUEUE},
                                          b \in BOOLEAN}

\* The error label of tun_alloc: if (fd > 0) close(fd); return -1.
tun_alloc_error(k, fd, trace) ==
    IF fd > 0
    THEN LET c == sys_close(k, fd)
         IN  [fd |-> -1, kfd |-> c.kfd, trace |-> trace \o c.trace]
    ELSE [fd |-> -1, kfd |-> k, trace |-> trace]

\* tun_alloc(name) of a driver built with RTE_PMD_TAP_MAX_QUEUES = max_queues,
\* called for queue qid (qid only labels the new channel).
tun_alloc_built(k, qid, env, max_queues) ==
    IF ~env.open \/ FreeFds(k) = {}
    THEN tun_alloc_error(k, -1, <<Sys("open", -1, -1, -1)>>)
    ELSE
    LET fd == LowestFree(k)
        k1 == [k EXCEPT ![fd] = [open |-> TRUE, owner |-> qid, flags |-> {},
                                 nonblock |-> FALSE]]
        t1 == <<Sys("open", -1, -1, fd)>>
    IN
    IF ~env.getfeatures
    THEN tun_alloc_error(k1, fd, t1 \o <<Sys("TUNGETFEATURES", fd, -1, -1)>>)
    ELSE
    LET t2 == t1 \o <<Sys("TUNGETFEATURES", fd, -1, 0)>> IN
    IF IFF_MULTI_QUEUE \notin env.features /\ max_queues > 1
    THEN tun_alloc_error(k1, fd, t2)
    ELSE
    LET flags == IF IFF_ONE_QUEUE \in env.features /\ max_queues = 1
                 THEN {IFF_ONE_QUEUE}
                 ELSE {IFF_MULTI_QUEUE}
    IN
    IF ~env.setiff
    THEN tun_alloc_error(k1, fd, t2 \o <<Sys("TUNSETIFF", fd, -1, -1)>>)
    ELSE
    LET k2 == [k1 EXCEPT ![fd].flags = flags]
        t3 == t2 \o <<Sys("TUNSETIFF", fd, -1, 0)>>
    IN
    IF ~env.setfl
    THEN tun_alloc_error(k2, fd, t3 \o <<Sys("F_SETFL", fd, -1, -1)>>)
    ELSE [fd |-> fd,
          kfd |-> [k2 EXCEPT ![fd].nonblock = TRUE],
          trace |-> t3 \o <<Sys("F_SETFL", fd, -1, 0)>>]

\* tun_alloc(name) as the driver is built.
tun_alloc(k, qid, env) == tun_alloc_built(k, qid, env, RTE_PMD_TAP_MAX_QUEUES)

---------------------------------------------------------------------------
(* The record of the most recent call.                                     *)

\* pmd->nb_queues, set once by eth_dev_tap_create.
nb_queues == RTE_PMD_TAP_MAX_QUEUES

RECURSIVE SumFn(_, _)
\* f[0] + ... + f[n - 1]
SumFn(f, n) == IF n = 0 THEN 0 ELSE SumFn(f, n - 1) + f[n - 1]

\* Packets accounted in the queues' counters; the bursts stop at MaxTotal.
Accounted ==
    SumFn([i \in Qs |-> rxq[i].stats.ipackets + txq[i].stats.opackets
                        + txq[i].stats.errs], nb_queues)

EmptyStats ==
    [q_ipackets |-> [i \in 0 .. (RTE_ETHDEV_QUEUE_STAT_CNTRS - 1) |-> 0],
     q_ibytes   |-> [i \in 0 .. (RTE_ETHDEV_QUEUE_STAT_CNTRS - 1) |-> 0],
     q_opackets |-> [i \in 0 .. (RTE_ETHDEV_QUEUE_STAT_CNTRS - 1) |-> 0],
     q_obytes   |-> [i \in 0 .. (RTE_ETHDEV_QUEUE_STAT_CNTRS - 1) |-> 0],
     q_errors   |-> [i \in 0 .. (RTE_ETHDEV_QUEUE_STAT_CNTRS - 1) |-> 0],
     ipackets |-> 0, ibytes |-> 0, opackets |-> 0, obytes |-> 0, oerrors |-> 0]

\* op: the entry point; qid: its queue (-1: none); nb: nb_pkts; ret: its
\* return value; trace: the system and pool calls it issued, in order;
\* pkts: the frame lengths handed to a TX burst; mbufs: the frames an RX
\* burst returned; stats: the rte_eth_stats a stats_get filled in;
\* cleared: the packets a stats_reset found accounted and cleared;
\* after_reset: what the stats_reset right before this call cleared, -1 when
\* the call before this one was no stats_reset.
Call(op, qid, nb, ret, trace, pkts, mbufs, stats) ==
    [op |-> op, qid |-> qid, nb |-> nb, ret |-> ret, trace |-> trace,
     pkts |-> pkts, mbufs |-> mbufs, stats |-> stats,
     cleared |-> IF op = "stats_reset" THEN Accounted ELSE 0,
     after_reset |-> IF lastCall.op = "stats_reset" THEN lastCall.cleared ELSE -1]

LifeCall(op, qid, ret, trace) == Call(op, qid, 0, ret, trace, <<>>, <<>>, EmptyStats)

---------------------------------------------------------------------------
(* Device creation.                                                        *)

\* The queue arrays of pmd_internals with every slot preset to -1; they stand
\* for the structures of a device that does not exist, too.
NoQueues ==
    [fds |-> [i \in Qs |-> -1],
     rxq |-> [i \in Qs |-> [mp |-> NoPool, in_port |-> 0, fd |-> -1,
                            stats |-> ZeroPktStats]],
     txq |-> [i \in Qs |-> [fd |-> -1, stats |-> ZeroPktStats]]]

\* The open descriptors of k with no queue of an existing device to own them.
Disown(k) == [n \in FdNums |-> IF k[n].open THEN [k[n] EXCEPT !.owner = -1] ELSE k[n]]

\* What the kernel answers to the two ioctls of pmd_mac_address.
MacEnv(get, set) == [get |-> get, set |-> set]

MacEnvs == {MacEnv(FALSE, FALSE), MacEnv(TRUE, FALSE), MacEnv(TRUE, TRUE)}

\* pmd_mac_address(fd, dev, addr): dev and addr are never NULL here.
pmd_mac_address(fd, mac) ==
    IF fd <= 0
    THEN [ret |-> -1, trace |-> <<>>]
    ELSE IF ~mac.get
    THEN [ret |-> -1, trace |-> <<Sys("SIOCGIFHWADDR", fd, -1, -1)>>]
    ELSE IF ~mac.set
    THEN [ret |-> -1, trace |-> <<Sys("SIOCGIFHWADDR", fd, -1, 0),
                                  Sys("SIOCSIFHWADDR", fd, -1, -1)>>]
    ELSE [ret |-> 0, trace |-> <<Sys("SIOCGIFHWADDR", fd, -1, 0),
                                 Sys("SIOCSIFHWADDR", fd, -1, 0)>>]

\* The error_exit label of eth_dev_tap_create: the structures are freed, the
\* port is released, -EINVAL is returned.
error_exit(k, trace) ==
    [ret |-> -EINVAL, fds |-> NoQueues.fds, rxq |-> NoQueues.rxq, txq |-> NoQueues.txq,
     kfd |-> Disown(k), trace |-> trace]

\* Which of the three allocations of eth_dev_tap_create fails, if any.
CreateMems == {"ok", "data", "pmd", "dev"}

\* eth_dev_tap_create(name, tap_name): its return value, the queue arrays and
\* the descriptor table it leaves, and the system calls it issued.
eth_dev_tap_create(k, mem, env, mac) ==
    IF mem /= "ok"
    THEN error_exit(k, <<>>)
    ELSE
    LET a == tun_alloc(k, 0, env) IN
    IF a.fd < 0
    THEN error_exit(a.kfd, a.trace)
    ELSE
    LET m == pmd_mac_address(a.fd, mac) IN
    IF m.ret < 0
    THEN error_exit(a.kfd, a.trace \o m.trace)
    ELSE [ret |-> 0,
          fds |-> [NoQueues.fds EXCEPT ![0] = a.fd],
          rxq |-> [NoQueues.rxq EXCEPT ![0].fd = a.fd],
          txq |-> [NoQueues.txq EXCEPT ![0].fd = a.fd],
          kfd |-> a.kfd, trace |-> a.trace \o m.trace]

\* No direct call of tun_alloc was made.
NoTun == [called |-> FALSE, max_queues |-> 0, features |-> {}, fd |-> -1]

\* The workers: one for the RX half and one for the TX half of each queue.
Workers == {"rx", "tx"} \X Qs

\* A worker between two burst calls.  pc: 0 between calls, 2k-1 before the load
\* and 2k before the store of the call's k-th counter update; add: the amounts
\* the call adds; reg: the value loaded; own: what the worker's calls have
\* counted so far; handed: the frames its calls were asked for.
IdleWorker == [pc |-> 0, add |-> <<>>, reg |-> 0, own |-> ZeroPktStats, handed |-> 0]

\* The device after a successful creation.
Init ==
    /\ port_id = ThePort
    /\ LET c == eth_dev_tap_create([n \in FdNums |-> ClosedFd], "ok",
                                   TunEnv(TRUE, TRUE, {IFF_MULTI_QUEUE}, TRUE, TRUE),
                                   MacEnv(TRUE, TRUE))
       IN  /\ kfd = c.kfd
           /\ fds = c.fds
           /\ rxq = c.rxq
           /\ txq = c.txq
           /\ lastCall = [op |-> "eth_dev_tap_create", qid |-> -1, nb |-> 0,
                          ret |-> c.ret, trace |-> c.trace, pkts |-> <<>>,
                          mbufs |-> <<>>, stats |-> EmptyStats, cleared |-> 0, after_reset |-> -1]
    /\ rx_queues = [i \in Qs |-> FALSE]
    /\ tx_queues = [i \in Qs |-> FALSE]
    /\ link_status = ETH_LINK_DOWN
    /\ allocated = TRUE
    /\ tun = NoTun
    /\ wk = [w \in Workers |-> IdleWorker]

---------------------------------------------------------------------------
(* Queue setup.                                                            *)

\* tap_setup_queue that asks for a new channel on every call.
tap_setup_queue_noreuse(qid, env) ==
    LET a == tun_alloc(kfd, qid, env) IN
    IF a.fd < 0
    THEN [ret |-> -1, rxq |-> rxq, txq |-> txq, rx_queues |-> rx_queues,
          tx_queues |-> tx_queues, kfd |-> a.kfd, trace |-> a.trace]
    ELSE [ret |-> a.fd,
          rxq |-> [rxq EXCEPT ![qid].fd = a.fd],
          txq |-> [txq EXCEPT ![qid].fd = a.fd],
          rx_queues |-> [rx_queues EXCEPT ![qid] = TRUE],
          tx_queues |-> [tx_queues EXCEPT ![qid] = TRUE],
          kfd |-> a.kfd, trace |-> a.trace]

\* tap_setup_queue that publishes the queue before it has a descriptor.
tap_setup_queue_pubfirst(qid, env) ==
    LET rxfd == rxq[qid].fd
        txfd == txq[qid].fd
        a    == IF rxfd < 0 /\ txfd < 0
                THEN tun_alloc(kfd, qid, env)
                ELSE [fd |-> IF rxfd < 0 THEN txfd ELSE rxfd,
                      kfd |-> kfd, trace |-> <<>>]
    IN
    IF a.fd < 0
    THEN [ret |-> -1, rxq |-> rxq, txq |-> txq,
          rx_queues |-> [rx_queues EXCEPT ![qid] = TRUE],
          tx_queues |-> [tx_queues EXCEPT ![qid] = TRUE],
          kfd |-> a.kfd, trace |-> a.trace]
    ELSE [ret |-> a.fd,
          rxq |-> [rxq EXCEPT ![qid].fd = a.fd],
          txq |-> [txq EXCEPT ![qid].fd = a.fd],
          rx_queues |-> [rx_queues EXCEPT ![qid] = TRUE],
          tx_queues |-> [tx_queues EXCEPT ![qid] = TRUE],
          kfd |-> a.kfd, trace |-> a.trace]

\* tap_setup_queue(dev, internals, qid): the descriptor it returns and the
\* queue tables it leaves.
tap_setup_queue(qid, env) ==
    LET rxfd == rxq[qid].fd
        txfd == txq[qid].fd
        a    == IF rxfd < 0 /\ txfd < 0
                THEN tun_alloc(kfd, qid, env)
                ELSE [fd |-> IF rxfd < 0 THEN txfd ELSE rxfd,
                      kfd |-> kfd, trace |-> <<>>]
    IN
    IF a.fd < 0
    THEN [ret |-> -1, rxq |-> rxq, txq |-> txq, rx_queues |-> rx_queues,
          tx_queues |-> tx_queues, kfd |-> a.kfd, trace |-> a.trace]
    ELSE [ret |-> a.fd,
          rxq |-> [rxq EXCEPT ![qid].fd = a.fd],
          txq |-> [txq EXCEPT ![qid].fd = a.fd],
          rx_queues |-> [rx_queues EXCEPT ![qid] = TRUE],
          tx_queues |-> [tx_queues EXCEPT ![qid] = TRUE],
          kfd |-> a.kfd, trace |-> a.trace]

\* tap_rx_queue_setup(dev, rx_queue_id, ..., mp)
tap_rx_queue_setup(rx_queue_id, mp, env) ==
    IF rx_queue_id >= nb_queues \/ mp = NoPool
    THEN /\ lastCall' = LifeCall("rx_queue_setup", rx_queue_id, -1, <<>>)
         /\ UNCHANGED <<fds, rxq, txq, rx_queues, tx_queues, link_status, port_id,
                        allocated, tun, wk, kfd>>
    ELSE IF mp.buf_size < ETH_FRAME_LEN
    THEN /\ rxq' = [rxq EXCEPT ![rx_queue_id].mp = mp,
                               ![rx_queue_id].in_port = port_id]
         /\ lastCall' = LifeCall("rx_queue_setup", rx_queue_id, -ENOMEM, <<>>)
         /\ UNCHANGED <<fds, txq, rx_queues, tx_queues, link_status, port_id,
                        allocated, tun, wk, kfd>>
    ELSE LET r == tap_setup_queue(rx_queue_id, env) IN
         /\ rxq' = [r.rxq EXCEPT ![rx_queue_id].mp = mp,
                                 ![rx_queue_id].in_port = port_id]
         /\ txq' = r.txq
         /\ rx_queues' = r.rx_queues
         /\ tx_queues' = r.tx_queues
         /\ kfd' = r.kfd
         /\ fds' = IF r.ret = -1 THEN fds ELSE [fds EXCEPT ![rx_queue_id] = r.ret]
         /\ lastCall' = LifeCall("rx_queue_setup", rx_queue_id,
                                 IF r.ret = -1 THEN -1 ELSE 0, r.trace)
         /\ UNCHANGED <<link_status, port_id, allocated, tun, wk>>

\* tap_tx_queue_setup(dev, tx_queue_id, ...)
tap_tx_queue_setup(tx_queue_id, env) ==
    IF tx_queue_id >= nb_queues
    THEN /\ lastCall' = LifeCall("tx_queue_setup", tx_queue_id, -1, <<>>)
         /\ UNCHANGED <<fds, rxq, txq, rx_queues, tx_queues, link_status, port_id,
                        allocated, tun, wk, kfd>>
    ELSE LET r == tap_setup_queue(tx_queue_id, env) IN
         /\ rxq' = r.rxq
         /\ txq' = r.txq
         /\ rx_queues' = r.rx_queues
         /\ tx_queues' = r.tx_queues
         /\ kfd' = r.kfd
         /\ lastCall' = LifeCall("tx_queue_setup", tx_queue_id,
                                 IF r.ret = -1 THEN -1 ELSE 0, r.trace)
         /\ UNCHANGED <<fds, link_status, port_id, allocated, tun, wk>>

---------------------------------------------------------------------------
(* Queue release.  The framework passes the published queue pointer, or    *)
(* NULL (qid = -1) for a queue that was never published.                   *)

\* tap_rx_queue_release(queue)
tap_rx_queue_release(qid) ==
    IF qid /= -1 /\ rxq[qid].fd > 0
    THEN LET c == sys_close(kfd, rxq[qid].fd) IN
         /\ kfd' = c.kfd
         /\ rxq' = [rxq EXCEPT ![qid].fd = -1]
         /\ lastCall' = LifeCall("rx_queue_release", qid, 0, c.trace)
         /\ UNCHANGED <<fds, txq, rx_queues, tx_queues, link_status, port_id, allocated, tun, wk>>
    ELSE /\ lastCall' = LifeCall("rx_queue_release", qid, 0, <<>>)
         /\ UNCHANGED <<fds, rxq, txq, rx_queues, tx_queues, link_status, port_id,
                        allocated, tun, wk, kfd>>

\* tap_tx_queue_release(queue)
tap_tx_queue_release(qid) ==
    IF qid /= -1 /\ txq[qid].fd > 0
    THEN LET c == sys_close(kfd, txq[qid].fd) IN
         /\ kfd' = c.kfd
         /\ txq' = [txq EXCEPT ![qid].fd = -1]
         /\ lastCall' = LifeCall("tx_queue_release", qid, 0, c.trace)
         /\ UNCHANGED <<fds, rxq, rx_queues, tx_queues, link_status, port_id, allocated, tun, wk>>
    ELSE /\ lastCall' = LifeCall("tx_queue_release", qid, 0, <<>>)
         /\ UNCHANGED <<fds, rxq, txq, rx_queues, tx_queues, link_status, port_id,
                        allocated, tun, wk, kfd>>

---------------------------------------------------------------------------
(* Start and stop.                                                         *)

\* tap_dev_start(dev)
tap_dev_start ==
    /\ link_status' = ETH_LINK_UP
    /\ lastCall' = LifeCall("dev_start", -1, 0, <<>>)
    /\ UNCHANGED <<fds, rxq, txq, rx_queues, tx_queues, port_id, allocated, tun, wk, kfd>>

\* The loop of tap_dev_stop from index i on:
\*     for (; i < nb_queues; i++) if (fds[i] != -1) close(fds[i]);
RECURSIVE stop_loop(_, _, _)
stop_loop(i, k, trace) ==
    IF i >= nb_queues
    THEN [kfd |-> k, trace |-> trace]
    ELSE IF fds[i] /= -1
         THEN LET c == sys_close(k, fds[i])
              IN  stop_loop(i + 1, c.kfd, trace \o c.trace)
         ELSE stop_loop(i + 1, k, trace)

\* tap_dev_stop(dev)
tap_dev_stop ==
    LET s == stop_loop(0, kfd, <<>>) IN
    /\ kfd' = s.kfd
    /\ link_status' = ETH_LINK_DOWN
    /\ lastCall' = LifeCall("dev_stop", -1, 0, s.trace)
    /\ UNCHANGED <<fds, rxq, txq, rx_queues, tx_queues, port_id, allocated, tun, wk>>

---------------------------------------------------------------------------
(* The lifecycle specification.                                            *)

\* The kernel's answers are drawn only for a call that reaches tun_alloc.
EnvsFor(q) ==
    IF q \in Qs /\ rxq[q].fd < 0 /\ txq[q].fd < 0
    THEN TunEnvs
    ELSE {TunEnv(FALSE, FALSE, {}, FALSE, FALSE)}

RxQueueSetup ==
    \E q \in 0 .. nb_queues, mp \in Pools \cup {NoPool} : \E env \in EnvsFor(q) :
        tap_rx_queue_setup(q, mp, env)

TxQueueSetup ==
    \E q \in 0 .. nb_queues : \E env \in EnvsFor(q) : tap_tx_queue_setup(q, env)

RxQueueRelease ==
    \E q \in {-1} \cup {i \in Qs : rx_queues[i]} : tap_rx_queue_release(q)

TxQueueRelease ==
    \E q \in {-1} \cup {i \in Qs : tx_queues[i]} : tap_tx_queue_release(q)

DevStart == tap_dev_start

DevStop == tap_dev_stop

Next ==
    \/ RxQueueSetup
    \/ TxQueueSetup
    \/ RxQueueRelease
    \/ TxQueueRelease
    \/ DevStart
    \/ DevStop

Spec == Init /\ [][Next]_vars

---------------------------------------------------------------------------
(* Burst I/O.                                                              *)

RECURSIVE SumSeq(_, _)
\* The sum of the first n elements of the sequence of numbers s.
SumSeq(s, n) == IF n = 0 THEN 0 ELSE SumSeq(s, n - 1) + s[n]

\* What one iteration of the RX loop meets: whether the pool has a buffer,
\* and what read() returns (-1: error or would-block, 0: end of stream).
\* A descriptor that is not open only ever fails the read (EBADF).
RxEvents(fd) ==
    {[alloc |-> FALSE, len |-> 0]}
    \cup {[alloc |-> TRUE, len |-> l] :
            l \in IF IsOpen(kfd, fd) THEN -1 .. MaxLen ELSE {-1}}

\* An iteration that leaves the RX loop.
RxStops(e) == ~e.alloc \/ e.len <= 0

RECURSIVE RxRuns(_, _)
\* What a burst of n iterations can meet: events up to the one that leaves
\* the loop, or n events that all stay in it.
RxRuns(fd, n) ==
    IF n = 0 THEN {<<>>}
    ELSE {<<e>> : e \in {x \in RxEvents(fd) : RxStops(x)}}
         \cup {<<e>> \o r : e \in {x \in RxEvents(fd) : ~RxStops(x)},
                            r \in RxRuns(fd, n - 1)}

\* The loop of pmd_rx_burst: s holds num_rx, num_rx_bytes, the frames stored
\* in bufs[] and the calls issued.  Buffer j is the j-th one the pool hands out
\* (counted from 0); a frame carries its buffer's number in buf.
RECURSIVE rx_loop(_, _, _, _)
rx_loop(qid, nb_pkts, ev, s) ==
    IF s.num_rx >= nb_pkts
    THEN s
    ELSE
    LET e   == ev[s.num_rx + 1]
        buf == s.num_rx
        fd  == rxq[qid].fd
    IN
    IF ~e.alloc
    THEN [s EXCEPT !.trace = @ \o <<Sys("alloc", -1, buf, -1)>>]
    ELSE
    LET t1 == s.trace \o <<Sys("alloc", -1, buf, 0), Sys("read", fd, buf, e.len)>> IN
    IF e.len <= 0
    THEN [s EXCEPT !.trace = t1 \o <<Sys("free", -1, buf, 0)>>]
    ELSE LET mbuf == [buf |-> buf, data_len |-> e.len, pkt_len |-> e.len,
                      port |-> rxq[qid].in_port]
         IN  rx_loop(qid, nb_pkts, ev,
                     [num_rx       |-> s.num_rx + 1,
                      num_rx_bytes |-> s.num_rx_bytes + mbuf.pkt_len,
                      bufs         |-> Append(s.bufs, mbuf),
                      trace        |-> t1])

\* pmd_rx_burst that adds the packet count to ibytes.
pmd_rx_burst_pktbytes(qid, nb_pkts, ev) ==
    LET s == rx_loop(qid, nb_pkts, ev,
                     [num_rx |-> 0, num_rx_bytes |-> 0, bufs |-> <<>>, trace |-> <<>>])
    IN  [ret   |-> s.num_rx,
         bufs  |-> s.bufs,
         stats |-> [rxq[qid].stats EXCEPT !.ipackets = @ + s.num_rx,
                                          !.ibytes   = @ + s.num_rx],
         trace |-> s.trace]

\* pmd_rx_burst that keeps the buffer of a failed read.
pmd_rx_burst_nofree(qid, nb_pkts, ev) ==
    LET s == rx_loop(qid, nb_pkts, ev,
                     [num_rx |-> 0, num_rx_bytes |-> 0, bufs |-> <<>>, trace |-> <<>>])
    IN  [ret   |-> s.num_rx,
         bufs  |-> s.bufs,
         stats |-> [rxq[qid].stats EXCEPT !.ipackets = @ + s.num_rx,
                                          !.ibytes   = @ + s.num_rx_bytes],
         trace |-> SelectSeq(s.trace, NotFree)]

\* pmd_rx_burst(queue, bufs, nb_pkts): the return value, the frames stored,
\* the queue's counters afterwards and the calls issued.
pmd_rx_burst(qid, nb_pkts, ev) ==
    LET s == rx_loop(qid, nb_pkts, ev,
                     [num_rx |-> 0, num_rx_bytes |-> 0, bufs |-> <<>>, trace |-> <<>>])
    IN  [ret   |-> s.num_rx,
         bufs  |-> s.bufs,
         stats |-> [rxq[qid].stats EXCEPT !.ipackets = @ + s.num_rx,
                                          !.ibytes   = @ + s.num_rx_bytes],
         trace |-> s.trace]

\* What one iteration of the TX loop meets: the return value of poll(), whether
\* revents carries POLLOUT, and the outcome of write() (1: the frame was
\* written, 0 or -1: it was not).  poll() skips a negative descriptor and
\* reports POLLNVAL, never POLLOUT, for one that is not open.
TxEvent(n, pollout, wr) == [n |-> n, pollout |-> pollout, wr |-> wr]

TxEvents(fd) ==
    {TxEvent(-1, FALSE, 0)}
    \cup (IF fd < 0 THEN {TxEvent(0, FALSE, 0)}
          ELSE IF ~IsOpen(kfd, fd) THEN {TxEvent(1, FALSE, 0)}
          ELSE {TxEvent(0, FALSE, 0), TxEvent(1, FALSE, 0)}
               \cup {TxEvent(1, TRUE, w) : w \in -1 .. 1})

\* An iteration that leaves the TX loop.
TxStops(e) == e.n <= 0 \/ (e.pollout /\ e.wr <= 0)

RECURSIVE TxRuns(_, _)
\* What a burst of n iterations can meet: events up to the one that leaves
\* the loop, or n events that all stay in it.
TxRuns(fd, n) ==
    IF n = 0 THEN {<<>>}
    ELSE {<<e>> : e \in {x \in TxEvents(fd) : TxStops(x)}}
         \cup {<<e>> \o r : e \in {x \in TxEvents(fd) : ~TxStops(x)},
                            r \in TxRuns(fd, n - 1)}

\* The loop of pmd_tx_burst writing bufs[i], the frame of the iteration.
RECURSIVE tx_loop_byi(_, _, _, _, _)
tx_loop_byi(fd, bufs, ev, i, s) ==
    IF i >= Len(bufs)
    THEN s
    ELSE
    LET e  == ev[i + 1]
        t1 == s.trace \o <<Sys("poll", fd, -1, e.n)>>
    IN
    IF e.n <= 0
    THEN [s EXCEPT !.trace = t1]
    ELSE IF e.pollout
    THEN LET pkt_len == bufs[i + 1]
             n  == IF e.wr > 0 THEN pkt_len ELSE e.wr
             t2 == t1 \o <<Sys("write", fd, i, n)>>
         IN  IF n <= 0
             THEN [s EXCEPT !.trace = t2]
             ELSE tx_loop_byi(fd, bufs, ev, i + 1,
                              [num_tx       |-> s.num_tx + 1,
                               num_tx_bytes |-> s.num_tx_bytes + pkt_len,
                               trace        |-> t2 \o <<Sys("free", -1, i, 0)>>])
    ELSE tx_loop_byi(fd, bufs, ev, i + 1, [s EXCEPT !.trace = t1])

\* The loop of pmd_tx_burst from iteration i on: s holds num_tx, num_tx_bytes
\* and the calls issued.  Buffer j is bufs[j] of the C array (bufs[j + 1] here).
RECURSIVE tx_loop(_, _, _, _, _)
tx_loop(fd, bufs, ev, i, s) ==
    IF i >= Len(bufs)
    THEN s
    ELSE
    LET e  == ev[i + 1]
        t1 == s.trace \o <<Sys("poll", fd, -1, e.n)>>
    IN
    IF e.n <= 0
    THEN [s EXCEPT !.trace = t1]
    ELSE IF e.pollout
    THEN LET pkt_len == bufs[s.num_tx + 1]
             n  == IF e.wr > 0 THEN pkt_len ELSE e.wr
             t2 == t1 \o <<Sys("write", fd, s.num_tx, n)>>
         IN  IF n <= 0
             THEN [s EXCEPT !.trace = t2]
             ELSE tx_loop(fd, bufs, ev, i + 1,
                          [num_tx       |-> s.num_tx + 1,
                           num_tx_bytes |-> s.num_tx_bytes + pkt_len,
                           trace        |-> t2 \o <<Sys("free", -1, s.num_tx, 0)>>])
    ELSE tx_loop(fd, bufs, ev, i + 1, [s EXCEPT !.trace = t1])

\* pmd_tx_burst that charges the whole batch to errs.
pmd_tx_burst_allerrs(qid, bufs, ev) ==
    LET nb_pkts == Len(bufs) IN
    IF nb_pkts = 0
    THEN [ret |-> 0, stats |-> txq[qid].stats, trace |-> <<>>]
    ELSE
    LET s == tx_loop(txq[qid].fd, bufs, ev, 0,
                     [num_tx |-> 0, num_tx_bytes |-> 0, trace |-> <<>>])
    IN  [ret   |-> s.num_tx,
         stats |-> [txq[qid].stats EXCEPT !.opackets = @ + s.num_tx,
                                          !.errs     = @ + nb_pkts,
                                          !.obytes   = @ + s.num_tx_bytes],
         trace |-> s.trace]

\* pmd_tx_burst without the nb_pkts == 0 return, polling before it tests i.
pmd_tx_burst_pollfirst(qid, bufs, ev) ==
    LET nb_pkts == Len(bufs)
        s == IF nb_pkts = 0
             THEN [num_tx |-> 0, num_tx_bytes |-> 0,
                   trace |-> <<Sys("poll", txq[qid].fd, -1, 0)>>]
             ELSE tx_loop(txq[qid].fd, bufs, ev, 0,
                          [num_tx |-> 0, num_tx_bytes |-> 0, trace |-> <<>>])
    IN  [ret   |-> s.num_tx,
         stats |-> [txq[qid].stats EXCEPT !.opackets = @ + s.num_tx,
                                          !.errs     = @ + (nb_pkts - s.num_tx),
                                          !.obytes   = @ + s.num_tx_bytes],
         trace |-> s.trace]

\* pmd_tx_burst that counts every frame it handed to write().
pmd_tx_burst_countfail(qid, bufs, ev) ==
    LET nb_pkts == Len(bufs) IN
    IF nb_pkts = 0
    THEN [ret |-> 0, stats |-> txq[qid].stats, trace |-> <<>>]
    ELSE
    LET s == tx_loop(txq[qid].fd, bufs, ev, 0,
                     [num_tx |-> 0, num_tx_bytes |-> 0, trace |-> <<>>])
        num_tx == Len(SelectSeq(s.trace, IsWrite))
    IN  [ret   |-> num_tx,
         stats |-> [txq[qid].stats EXCEPT !.opackets = @ + num_tx,
                                          !.errs     = @ + (nb_pkts - num_tx),
                                          !.obytes   = @ + s.num_tx_bytes],
         trace |-> s.trace]

\* pmd_tx_burst(queue, bufs, nb_pkts), bufs given as the frames' pkt_len: the
\* return value, the queue's counters afterwards and the calls issued.
pmd_tx_burst(qid, bufs, ev) ==
    LET nb_pkts == Len(bufs) IN
    IF nb_pkts = 0
    THEN [ret |-> 0, stats |-> txq[qid].stats, trace |-> <<>>]
    ELSE
    LET s == tx_loop(txq[qid].fd, bufs, ev, 0,
                     [num_tx |-> 0, num_tx_bytes |-> 0, trace |-> <<>>])
    IN  [ret   |-> s.num_tx,
         stats |-> [txq[qid].stats EXCEPT !.opackets = @ + s.num_tx,
                                          !.errs     = @ + (nb_pkts - s.num_tx),
                                          !.obytes   = @ + s.num_tx_bytes],
         trace |-> s.trace]

---------------------------------------------------------------------------
(* Statistics.                                                             *)

\* tap_stats_get that adds up the counters of every queue of the device.
tap_stats_get_allqueues(tap_stats) ==
    LET imax == IF nb_queues < RTE_ETHDEV_QUEUE_STAT_CNTRS
                THEN nb_queues ELSE RTE_ETHDEV_QUEUE_STAT_CNTRS
        q_ipackets == [i \in DOMAIN tap_stats.q_ipackets |->
                        IF i < imax THEN rxq[i].stats.ipackets ELSE tap_stats.q_ipackets[i]]
        q_ibytes   == [i \in DOMAIN tap_stats.q_ibytes |->
                        IF i < imax THEN rxq[i].stats.ibytes ELSE tap_stats.q_ibytes[i]]
        q_opackets == [i \in DOMAIN tap_stats.q_opackets |->
                        IF i < imax THEN txq[i].stats.opackets ELSE tap_stats.q_opackets[i]]
        q_errors   == [i \in DOMAIN tap_stats.q_errors |->
                        IF i < imax THEN txq[i].stats.errs ELSE tap_stats.q_errors[i]]
        q_obytes   == [i \in DOMAIN tap_stats.q_obytes |->
                        IF i < imax THEN txq[i].stats.obytes ELSE tap_stats.q_obytes[i]]
    IN  [q_ipackets |-> q_ipackets, q_ibytes |-> q_ibytes,
         q_opackets |-> q_opackets, q_obytes |-> q_obytes, q_errors |-> q_errors,
         ipackets |-> SumFn([i \in Qs |-> rxq[i].stats.ipackets], nb_queues),
         ibytes   |-> SumFn([i \in Qs |-> rxq[i].stats.ibytes], nb_queues),
         opackets |-> SumFn([i \in Qs |-> txq[i].stats.opackets], nb_queues),
         oerrors  |-> SumFn([i \in Qs |-> txq[i].stats.errs], nb_queues),
         obytes   |-> SumFn([i \in Qs |-> txq[i].stats.obytes], nb_queues)]

\* tap_stats_get(dev, tap_stats): the struct as the call leaves it.
tap_stats_get(tap_stats) ==
    LET imax == IF nb_queues < RTE_ETHDEV_QUEUE_STAT_CNTRS
                THEN nb_queues ELSE RTE_ETHDEV_QUEUE_STAT_CNTRS
        q_ipackets == [i \in DOMAIN tap_stats.q_ipackets |->
                        IF i < imax THEN rxq[i].stats.ipackets ELSE tap_stats.q_ipackets[i]]
        q_ibytes   == [i \in DOMAIN tap_stats.q_ibytes |->
                        IF i < imax THEN rxq[i].stats.ibytes ELSE tap_stats.q_ibytes[i]]
        q_opackets == [i \in DOMAIN tap_stats.q_opackets |->
                        IF i < imax THEN txq[i].stats.opackets ELSE tap_stats.q_opackets[i]]
        q_errors   == [i \in DOMAIN tap_stats.q_errors |->
                        IF i < imax THEN txq[i].stats.errs ELSE tap_stats.q_errors[i]]
        q_obytes   == [i \in DOMAIN tap_stats.q_obytes |->
                        IF i < imax THEN txq[i].stats.obytes ELSE tap_stats.q_obytes[i]]
    IN  [q_ipackets |-> q_ipackets, q_ibytes |-> q_ibytes,
         q_opackets |-> q_opackets, q_obytes |-> q_obytes, q_errors |-> q_errors,
         ipackets |-> SumFn(q_ipackets, imax),
         ibytes   |-> SumFn(q_ibytes, imax),
         opackets |-> SumFn(q_opackets, imax),
         oerrors  |-> SumFn(q_errors, imax),
         obytes   |-> SumFn(q_obytes, imax)]

\* tap_stats_reset that leaves the TX error counters.
tap_stats_reset_keeperrs ==
    [rxq |-> [i \in Qs |-> IF i < nb_queues
                           THEN [rxq[i] EXCEPT !.stats.ipackets = 0, !.stats.ibytes = 0]
                           ELSE rxq[i]],
     txq |-> [i \in Qs |-> IF i < nb_queues
                           THEN [txq[i] EXCEPT !.stats.opackets = 0, !.stats.obytes = 0]
                           ELSE txq[i]]]

\* tap_stats_reset(dev): the queues as the call leaves them.
tap_stats_reset ==
    [rxq |-> [i \in Qs |-> IF i < nb_queues
                           THEN [rxq[i] EXCEPT !.stats.ipackets = 0, !.stats.ibytes = 0]
                           ELSE rxq[i]],
     txq |-> [i \in Qs |-> IF i < nb_queues
                           THEN [txq[i] EXCEPT !.stats.opackets = 0, !.stats.errs = 0,
                                               !.stats.obytes = 0]
                           ELSE txq[i]]]

---------------------------------------------------------------------------
(***************************************************************************)
(* The I/O specification.  It starts where an application hands the queues *)
(* to its workers: the device created, both halves of every queue set up   *)
(* in order with a pool that fits a frame, the device started (IOInit is a *)
(* state of Spec: TLC reaches it).  The workers run bursts, statistics are *)
(* read and reset, and the device may be stopped under the workers.        *)
(***************************************************************************)

QueueFd(i) == 3 + i

IOInit ==
    /\ port_id = ThePort
    /\ fds = [i \in Qs |-> QueueFd(i)]
    /\ rxq = [i \in Qs |-> [mp |-> [buf_size |-> ETH_FRAME_LEN], in_port |-> port_id,
                            fd |-> QueueFd(i), stats |-> ZeroPktStats]]
    /\ txq = [i \in Qs |-> [fd |-> QueueFd(i), stats |-> ZeroPktStats]]
    /\ rx_queues = [i \in Qs |-> TRUE]
    /\ tx_queues = [i \in Qs |-> TRUE]
    /\ link_status = ETH_LINK_UP
    /\ kfd = [n \in FdNums |->
                IF n - 3 \in Qs
                THEN [open |-> TRUE, owner |-> n - 3, flags |-> {IFF_MULTI_QUEUE},
                      nonblock |-> TRUE]
                ELSE ClosedFd]
    /\ lastCall = [op |-> "dev_start", qid |-> -1, nb |-> 0, ret |-> 0,
                   trace |-> <<>>, pkts |-> <<>>, mbufs |-> <<>>,
                   stats |-> EmptyStats, cleared |-> 0, after_reset |-> -1]
    /\ allocated = TRUE
    /\ tun = NoTun
    /\ wk = [w \in Workers |-> IdleWorker]

\* rte_eth_rx_burst on a queue that tap_rx_queue_setup gave a pool.
RxBurst ==
    \E qid \in {i \in Qs : rx_queues[i] /\ rxq[i].mp /= NoPool} :
    \E nb_pkts \in {n \in 0 .. MaxBurst : Accounted + n <= MaxTotal} :
    \E ev \in RxRuns(rxq[qid].fd, nb_pkts) :
        /\ LET r == pmd_rx_burst(qid, nb_pkts, ev) IN
           /\ rxq' = [rxq EXCEPT ![qid].stats = r.stats]
           /\ lastCall' = Call("rx_burst", qid, nb_pkts, r.ret, r.trace, <<>>,
                               r.bufs, EmptyStats)
        /\ UNCHANGED <<fds, txq, rx_queues, tx_queues, link_status, port_id,
                       allocated, tun, wk, kfd>>

\* rte_eth_tx_burst on a published queue.
TxBurst ==
    \E qid \in {i \in Qs : tx_queues[i]} :
    \E nb_pkts \in {n \in 0 .. MaxBurst : Accounted + n <= MaxTotal} :
    \E bufs \in [1 .. nb_pkts -> 1 .. MaxLen] :
    \E ev \in TxRuns(txq[qid].fd, nb_pkts) :
        /\ LET r == pmd_tx_burst(qid, bufs, ev) IN
           /\ txq' = [txq EXCEPT ![qid].stats = r.stats]
           /\ lastCall' = Call("tx_burst", qid, nb_pkts, r.ret, r.trace, bufs,
                               <<>>, EmptyStats)
        /\ UNCHANGED <<fds, rxq, rx_queues, tx_queues, link_status, port_id,
                       allocated, tun, wk, kfd>>

\* rte_eth_stats_get hands tap_stats_get a zeroed struct.
StatsGet ==
    /\ lastCall' = Call("stats_get", -1, 0, 0, <<>>, <<>>, <<>>,
                        tap_stats_get(EmptyStats))
    /\ UNCHANGED <<fds, rxq, txq, rx_queues, tx_queues, link_status, port_id,
                   allocated, tun, wk, kfd>>

StatsReset ==
    /\ rxq' = tap_stats_reset.rxq
    /\ txq' = tap_stats_reset.txq
    /\ lastCall' = Call("stats_reset", -1, 0, 0, <<>>, <<>>, <<>>, EmptyStats)
    /\ UNCHANGED <<fds, rx_queues, tx_queues, link_status, port_id, allocated, tun, wk, kfd>>

NextIO ==
    \/ DevStop
    \/ RxBurst
    \/ TxBurst
    \/ StatsGet
    \/ StatsReset

SpecIO == IOInit /\ [][NextIO]_vars

---------------------------------------------------------------------------
(***************************************************************************)
(* Creation and removal.  It starts with no device; a probe creates one    *)
(* or fails, the device gets TX queues and is stopped, and it is removed.  *)
(* A descriptor still open when its device is gone stays in the            *)
(* descriptor table, owned by no queue.                                    *)
(***************************************************************************)

NoCall ==
    [op |-> "none", qid |-> -1, nb |-> 0, ret |-> 0, trace |-> <<>>, pkts |-> <<>>,
     mbufs |-> <<>>, stats |-> EmptyStats, cleared |-> 0, after_reset |-> -1]

CreateInit ==
    /\ port_id = ThePort
    /\ fds = NoQueues.fds
    /\ rxq = NoQueues.rxq
    /\ txq = NoQueues.txq
    /\ rx_queues = [i \in Qs |-> FALSE]
    /\ tx_queues = [i \in Qs |-> FALSE]
    /\ link_status = ETH_LINK_DOWN
    /\ kfd = [n \in FdNums |-> ClosedFd]
    /\ lastCall = NoCall
    /\ allocated = FALSE
    /\ tun = NoTun
    /\ wk = [w \in Workers |-> IdleWorker]

\* rte_pmd_tap_probe(name, params) for a name that has no device yet.  The
\* kernel's answers are drawn only for the calls that are reached.
PmdProbe ==
    /\ ~allocated
    /\ \E mem \in CreateMems :
       \E env \in IF mem = "ok" THEN TunEnvs ELSE {TunEnv(FALSE, FALSE, {}, FALSE, FALSE)} :
       \E mac \in IF mem = "ok" /\ env.setfl THEN MacEnvs ELSE {MacEnv(FALSE, FALSE)} :
          LET c == eth_dev_tap_create(kfd, mem, env, mac) IN
          /\ allocated' = (c.ret = 0)
          /\ fds' = c.fds
          /\ rxq' = c.rxq
          /\ txq' = c.txq
          /\ kfd' = c.kfd
          /\ lastCall' = LifeCall("eth_dev_tap_create", -1, c.ret, c.trace)
    /\ UNCHANGED <<rx_queues, tx_queues, link_status, port_id, tun, wk>>

\* The loop of rte_pmd_tap_remove from index i on:
\*     for (; i < internals->nb_queues; i++) if (fds[i] != -1) close(fds[i]);
RECURSIVE remove_loop(_, _, _)
remove_loop(i, k, trace) ==
    IF i >= nb_queues
    THEN [kfd |-> k, trace |-> trace]
    ELSE IF fds[i] /= -1
         THEN LET c == sys_close(k, fds[i])
              IN  remove_loop(i + 1, c.kfd, trace \o c.trace)
         ELSE remove_loop(i + 1, k, trace)

\* rte_pmd_tap_remove(name)
rte_pmd_tap_remove ==
    IF ~allocated
    THEN /\ lastCall' = LifeCall("pmd_remove", -1, 0, <<>>)
         /\ UNCHANGED <<fds, rxq, txq, rx_queues, tx_queues, link_status, port_id,
                        allocated, tun, wk, kfd>>
    ELSE LET s == remove_loop(0, kfd, <<>>) IN
         /\ kfd' = Disown(s.kfd)
         /\ fds' = NoQueues.fds
         /\ rxq' = NoQueues.rxq
         /\ txq' = NoQueues.txq
         /\ rx_queues' = [i \in Qs |-> FALSE]
         /\ tx_queues' = [i \in Qs |-> FALSE]
         /\ link_status' = ETH_LINK_DOWN
         /\ allocated' = FALSE
         /\ lastCall' = LifeCall("pmd_remove", -1, 0, s.trace)
         /\ UNCHANGED <<port_id, tun, wk>>

PmdRemove == rte_pmd_tap_remove

\* The entry points of a device exist while the device does.
CreatedTxQueueSetup == allocated /\ TxQueueSetup

CreatedDevStop == allocated /\ DevStop

NextCreate ==
    \/ PmdProbe
    \/ PmdRemove
    \/ CreatedTxQueueSetup
    \/ CreatedDevStop

SpecCreate == CreateInit /\ [][NextCreate]_vars

---------------------------------------------------------------------------
(***************************************************************************)
(* tun_alloc on its own: every answer of the kernel, and every queue count *)
(* 1 .. MaxBuilt the driver may be built with.  The caller closes a        *)
(* channel it got.                                                         *)
(***************************************************************************)

TunInit ==
    /\ CreateInit

\* One call fd = tun_alloc(name) of a driver built with max_queues queues.
TunAlloc ==
    /\ \E max_queues \in 1 .. MaxBuilt, env \in TunEnvs :
          LET a == tun_alloc_built(kfd, 0, env, max_queues) IN
          /\ kfd' = a.kfd
          /\ tun' = [called |-> TRUE, max_queues |-> max_queues,
                     features |-> env.features, fd |-> a.fd]
          /\ lastCall' = LifeCall("tun_alloc", -1, a.fd, a.trace)
    /\ UNCHANGED <<fds, rxq, txq, rx_queues, tx_queues, link_status, port_id,
                   allocated, wk>>

\* The caller closes a channel tun_alloc returned.
TunClose ==
    /\ \E fd \in OpenFds(kfd) :
          LET c == sys_close(kfd, fd) IN
          /\ kfd' = c.kfd
          /\ lastCall' = LifeCall("close", -1, 0, c.trace)
    /\ UNCHANGED <<fds, rxq, txq, rx_queues, tx_queues, link_status, port_id,
                   allocated, tun, wk>>

NextTun ==
    \/ TunAlloc
    \/ TunClose

SpecTun == TunInit /\ [][NextTun]_vars

---------------------------------------------------------------------------
(***************************************************************************)
(* The workers.  An application runs one worker per queue half; nothing    *)
(* in the driver serialises them.  A burst runs its loop, then updates its *)
(* queue's counters: each `counter += amount` is a load and a store, and   *)
(* the loads and stores of the workers interleave freely.                  *)
(***************************************************************************)

\* The counters a burst of the worker updates, in the order of the code.
StatFields(w) ==
    IF w[1] = "rx" THEN <<"ipackets", "ibytes">> ELSE <<"opackets", "errs", "obytes">>

\* The counters every pmd_tx_burst updates are those of queue 0.
tx_stats_queue_first(qid) == 0

\* rxq->stats of pmd_rx_burst(queue = &rxq[qid]): the queue whose counters it
\* updates.
rx_stats_queue(qid) == qid

\* txq->stats of pmd_tx_burst(queue = &txq[qid]): the queue whose counters it
\* updates.
tx_stats_queue(qid) == qid

\* The struct pkt_stats the worker's bursts update.
WorkerStats(w) ==
    IF w[1] = "rx" THEN rxq[rx_stats_queue(w[2])].stats
                   ELSE txq[tx_stats_queue(w[2])].stats

\* The frames handed to the workers' calls so far; the workers stop at MaxTotal.
Handed ==
    SumFn([i \in Qs |-> wk[<<"rx", i>>].handed + wk[<<"tx", i>>].handed], nb_queues)

\* The RX worker of a queue calls rte_eth_rx_burst: the loop of pmd_rx_burst.
RxWorkerBurst ==
    /\ \E qid \in Qs :
       \E nb_pkts \in {n \in 1 .. MaxBurst : Handed + n <= MaxTotal} :
       \E ev \in RxRuns(rxq[qid].fd, nb_pkts) :
          /\ wk[<<"rx", qid>>].pc = 0
          /\ LET s == rx_loop(qid, nb_pkts, ev,
                              [num_rx |-> 0, num_rx_bytes |-> 0, bufs |-> <<>>,
                               trace |-> <<>>])
             IN  wk' = [wk EXCEPT ![<<"rx", qid>>] =
                          [pc |-> 1, add |-> <<s.num_rx, s.num_rx_bytes>>, reg |-> 0,
                           own |-> [@.own EXCEPT !.ipackets = @ + s.num_rx,
                                                 !.ibytes = @ + s.num_rx_bytes],
                           handed |-> @.handed + nb_pkts]]
    /\ UNCHANGED <<fds, rxq, txq, rx_queues, tx_queues, link_status, port_id,
                   allocated, tun, kfd, lastCall>>

\* The TX worker of a queue calls rte_eth_tx_burst: the loop of pmd_tx_burst.
TxWorkerBurst ==
    /\ \E qid \in Qs :
       \E nb_pkts \in {n \in 1 .. MaxBurst : Handed + n <= MaxTotal} :
       \E bufs \in [1 .. nb_pkts -> 1 .. MaxLen] :
       \E ev \in TxRuns(txq[qid].fd, nb_pkts) :
          /\ wk[<<"tx", qid>>].pc = 0
          /\ LET s == tx_loop(txq[qid].fd, bufs, ev, 0,
                              [num_tx |-> 0, num_tx_bytes |-> 0, trace |-> <<>>])
             IN  wk' = [wk EXCEPT ![<<"tx", qid>>] =
                          [pc |-> 1,
                           add |-> <<s.num_tx, nb_pkts - s.num_tx, s.num_tx_bytes>>,
                           reg |-> 0,
                           own |-> [@.own EXCEPT !.opackets = @ + s.num_tx,
                                                 !.errs = @ + (nb_pkts - s.num_tx),
                                                 !.obytes = @ + s.num_tx_bytes],
                           handed |-> @.handed + nb_pkts]]
    /\ UNCHANGED <<fds, rxq, txq, rx_queues, tx_queues, link_status, port_id,
                   allocated, tun, kfd, lastCall>>

\* A worker loads the counter of its next update.
WorkerLoad ==
    /\ \E w \in Workers :
          /\ wk[w].pc % 2 = 1
          /\ wk' = [wk EXCEPT ![w].reg = WorkerStats(w)[StatFields(w)[(wk[w].pc + 1) \div 2]],
                              ![w].pc = @ + 1]
    /\ UNCHANGED <<fds, rxq, txq, rx_queues, tx_queues, link_status, port_id,
                   allocated, tun, kfd, lastCall>>

\* A worker stores the counter it loaded, with its amount added.
WorkerStore ==
    /\ \E w \in Workers :
          /\ wk[w].pc > 0 /\ wk[w].pc % 2 = 0
          /\ LET k == wk[w].pc \div 2
                 f == StatFields(w)[k]
                 v == wk[w].reg + wk[w].add[k]
             IN  /\ IF w[1] = "rx"
                    THEN /\ rxq' = [rxq EXCEPT ![rx_stats_queue(w[2])].stats[f] = v]
                         /\ txq' = txq
                    ELSE /\ txq' = [txq EXCEPT ![tx_stats_queue(w[2])].stats[f] = v]
                         /\ rxq' = rxq
                 /\ wk' = [wk EXCEPT ![w].pc = IF k = Len(StatFields(w)) THEN 0 ELSE @ + 1]
    /\ UNCHANGED <<fds, rx_queues, tx_queues, link_status, port_id,
                   allocated, tun, kfd, lastCall>>

NextWorkers ==
    \/ RxWorkerBurst
    \/ TxWorkerBurst
    \/ WorkerLoad
    \/ WorkerStore

SpecWorkers == IOInit /\ [][NextWorkers]_vars

---------------------------------------------------------------------------
(* Properties of the queue/descriptor lifecycle (Spec).                    *)

SetupOps == {"rx_queue_setup", "tx_queue_setup"}

Slots(i) == {rxq[i].fd, txq[i].fd, fds[i]}

IsClose(x) == x.call = "close"
IsOpenCall(x) == x.call = "open"
IsFree(x) == x.call = "free"
IsGoodRead(x) == x.call = "read" /\ x.res > 0

\* C1: after rx_queue_setup(i) or tx_queue_setup(i) returns success, the two
\* halves of queue i hold the same descriptor and that descriptor is open.
C1_SetupLeavesOpenSharedFd ==
    (lastCall.op \in SetupOps /\ lastCall.ret = 0) =>
        LET i == lastCall.qid IN
        /\ rxq[i].fd = txq[i].fd
        /\ IsOpen(kfd, rxq[i].fd)

\* C2: in every reachable state, once either half of queue i was configured,
\* rxq[i].fd = txq[i].fd.
C2_HalvesAgree ==
    \A i \in Qs : (rx_queues[i] \/ tx_queues[i]) => rxq[i].fd = txq[i].fd

\* C3: after stop() every descriptor the device had open is closed, every
\* descriptor slot holds -1 and the link is down.
C3_StopClosesAndClears ==
    lastCall.op = "dev_stop" =>
        /\ OpenFds(kfd) = {}
        /\ \A i \in Qs : Slots(i) = {-1}
        /\ link_status = ETH_LINK_DOWN

\* C4: a stop() directly after a stop() issues no close call and leaves the
\* descriptor slots and the link state as the first stop() left them.
C4_StopIdempotent ==
    [][(lastCall.op = "dev_stop" /\ lastCall'.op = "dev_stop") =>
          /\ SelectSeq(lastCall'.trace, IsClose) = <<>>
          /\ fds' = fds /\ rxq' = rxq /\ txq' = txq
          /\ link_status' = link_status]_vars

\* C9: no queue id owns more than one open channel, the open descriptors never
\* outnumber the queues, and a setup call for queue i opens a channel only when
\* neither half of queue i holds an open descriptor; otherwise it installs the
\* descriptor already held, the RX slot's first.
C9_OneChannelPerQueue ==
    /\ [](\A q \in Qs : Cardinality({n \in OpenFds(kfd) : kfd[n].owner = q}) <= 1)
    /\ [](Cardinality(OpenFds(kfd)) <= nb_queues)
    /\ [][(lastCall'.op \in SetupOps /\ lastCall'.qid \in Qs) =>
            LET i    == lastCall'.qid
                held == IsOpen(kfd, rxq[i].fd) \/ IsOpen(kfd, txq[i].fd)
                old  == IF IsOpen(kfd, rxq[i].fd) THEN rxq[i].fd ELSE txq[i].fd
            IN  /\ SelectSeq(lastCall'.trace, IsOpenCall) /= <<>> => ~held
                /\ (held /\ lastCall'.ret = 0) =>
                       /\ rxq'[i].fd = old /\ txq'[i].fd = old
                       /\ kfd' = kfd]_vars

\* A setup call reused the queue's descriptor while every queue owns a channel.
C9_Witness ==
    /\ lastCall.op \in SetupOps /\ lastCall.ret = 0 /\ lastCall.trace = <<>>
    /\ IsOpen(kfd, rxq[lastCall.qid].fd)
    /\ \A q \in Qs : \E n \in OpenFds(kfd) : kfd[n].owner = q

\* C10: each descriptor slot holds -1 or a descriptor that is open.
C10_SlotsUnassignedOrOpen ==
    \A i \in Qs : \A fd \in Slots(i) : fd = -1 \/ IsOpen(kfd, fd)

---------------------------------------------------------------------------
(* Properties of the burst engines and the statistics (SpecIO).            *)

\* C5: a transmit of n frames returns 0 <= sent <= n, releases exactly the
\* buffers 0 .. sent-1, each once and none other, and adds sent to opackets,
\* the lengths of the sent frames to obytes and n - sent to errs.
C5_TxAccounting ==
    [][lastCall'.op = "tx_burst" =>
          LET c     == lastCall'
              q     == c.qid
              sent  == c.ret
              freed == SelectSeq(c.trace, IsFree)
          IN  /\ 0 <= sent /\ sent <= c.nb
              /\ Len(freed) = sent
              /\ \A j \in 1 .. sent : freed[j].buf = j - 1
              /\ txq'[q].stats.opackets = txq[q].stats.opackets + sent
              /\ txq'[q].stats.obytes = txq[q].stats.obytes + SumSeq(c.pkts, sent)
              /\ txq'[q].stats.errs = txq[q].stats.errs + (c.nb - sent)]_vars

\* A transmit that sent some of its frames and was stopped before the last.
C5_Witness ==
    /\ lastCall.op = "tx_burst"
    /\ 0 < lastCall.ret /\ lastCall.ret < lastCall.nb
    /\ txq[lastCall.qid].stats.obytes > txq[lastCall.qid].stats.opackets

\* C6: a transmit of no frames returns 0, issues no system call and leaves the
\* counters unchanged.
C6_EmptyTx ==
    [][(lastCall'.op = "tx_burst" /\ lastCall'.nb = 0) =>
          /\ lastCall'.ret = 0
          /\ lastCall'.trace = <<>>
          /\ txq' = txq /\ rxq' = rxq]_vars

\* An empty transmit on a queue whose counters are not zero.
C6_Witness ==
    /\ lastCall.op = "tx_burst" /\ lastCall.nb = 0 /\ lastCall.ret = 0
    /\ txq[lastCall.qid].stats.opackets > 0
    /\ txq[lastCall.qid].stats.errs > 0

\* C7: a receive of at most N frames returns 0 <= k <= N frames, each with the
\* length its read returned and the queue's input port, and adds k to ipackets
\* and the k lengths to ibytes; a shorter batch is no error.
C7_RxAccounting ==
    [][lastCall'.op = "rx_burst" =>
          LET c     == lastCall'
              q     == c.qid
              k     == c.ret
              reads == SelectSeq(c.trace, IsGoodRead)
              lens  == [j \in 1 .. Len(c.mbufs) |-> c.mbufs[j].pkt_len]
          IN  /\ 0 <= k /\ k <= c.nb
              /\ Len(c.mbufs) = k
              /\ Len(reads) = k
              /\ \A j \in 1 .. k :
                    /\ c.mbufs[j].pkt_len = reads[j].res
                    /\ c.mbufs[j].data_len = reads[j].res
                    /\ c.mbufs[j].port = rxq[q].in_port
              /\ rxq'[q].stats.ipackets = rxq[q].stats.ipackets + k
              /\ rxq'[q].stats.ibytes = rxq[q].stats.ibytes + SumSeq(lens, k)]_vars

\* A receive that returned a frame longer than one byte and fewer frames than
\* asked for.
C7_Witness ==
    /\ lastCall.op = "rx_burst"
    /\ 0 < lastCall.ret /\ lastCall.ret < lastCall.nb
    /\ \E j \in 1 .. Len(lastCall.mbufs) : lastCall.mbufs[j].pkt_len > 1
    /\ lastCall.mbufs[1].port = ThePort

\* C8: a stats_get right after a stats_reset reports zero in every per-queue
\* field and every total.
C8_ResetThenGetIsZero ==
    (lastCall.op = "stats_get" /\ lastCall.after_reset >= 0) =>
        lastCall.stats = EmptyStats

\* A stats_get right after a stats_reset that cleared accounted packets.
C8_Witness ==
    /\ lastCall.op = "stats_get"
    /\ lastCall.after_reset > 0
    /\ lastCall.stats = EmptyStats

\* The poll at position j of the trace t found the descriptor not writable:
\* it returned no event, or events that led to no write().
NotWritable(t, j) ==
    /\ t[j].call = "poll"
    /\ (t[j].res <= 0 \/ j = Len(t) \/ t[j + 1].call /= "write")

\* C15: within one transmit, once a poll reports the descriptor not writable
\* (no event, an error, or events without POLLOUT) the call issues no further
\* poll or write.
C15_TxStopsWhenNotWritable ==
    lastCall.op = "tx_burst" =>
        \A j \in 1 .. Len(lastCall.trace) :
            NotWritable(lastCall.trace, j) => j = Len(lastCall.trace)

\* C16: within one transmit, a write that returns <= 0 is the last call the
\* transmit issues: its frame is not counted as sent, its buffer is not
\* released, and no poll or write follows.
C16_TxStopsOnFailedWrite ==
    lastCall.op = "tx_burst" =>
        LET t == lastCall.trace IN
        \A j \in 1 .. Len(t) :
            (IsWrite(t[j]) /\ t[j].res <= 0) =>
                /\ j = Len(t)
                /\ lastCall.ret = t[j].buf
                /\ \A m \in 1 .. Len(t) : ~(IsFree(t[m]) /\ t[m].buf = t[j].buf)

\* A transmit of two frames whose first write failed.
C16_Witness ==
    /\ lastCall.op = "tx_burst" /\ lastCall.nb = 2 /\ lastCall.ret = 0
    /\ Len(lastCall.trace) = 2
    /\ IsWrite(lastCall.trace[2]) /\ lastCall.trace[2].res <= 0

\* C17: a transmit writes its frames in input order without gap or repeat (the
\* k-th write carries frame k-1 with that frame's length, and only the last
\* write may have failed); the j-th frame a receive returns is the buffer and
\* the length of its j-th read.
C17_InOrder ==
    /\ lastCall.op = "tx_burst" =>
          LET writes == SelectSeq(lastCall.trace, IsWrite) IN
          \A k \in 1 .. Len(writes) :
              /\ writes[k].buf = k - 1
              /\ k < Len(writes) => writes[k].res > 0
              /\ writes[k].res > 0 => writes[k].res = lastCall.pkts[k]
    /\ lastCall.op = "rx_burst" =>
          LET reads == SelectSeq(lastCall.trace, IsRead) IN
          /\ Len(reads) >= lastCall.ret
          /\ \A j \in 1 .. lastCall.ret :
                /\ reads[j].res > 0
                /\ lastCall.mbufs[j].buf = reads[j].buf
                /\ lastCall.mbufs[j].pkt_len = reads[j].res

\* A transmit of two frames of different lengths whose first poll came back
\* without POLLOUT and whose second iteration wrote frame 0.
C17_Witness ==
    /\ lastCall.op = "tx_burst" /\ lastCall.nb = 2 /\ lastCall.ret = 1
    /\ lastCall.pkts[1] /= lastCall.pkts[2]
    /\ Len(lastCall.trace) = 4
    /\ lastCall.trace[2].call = "poll"
    /\ IsWrite(lastCall.trace[3]) /\ lastCall.trace[3].buf = 0

\* C18: a receive reads exactly once into every buffer it acquired; the buffers
\* acquired are the ones returned plus the ones released; at most one is
\* released, the one whose read returned <= 0; a failed acquisition, or a read
\* that returned <= 0 (followed by its release), ends the call.
C18_RxNoLeak ==
    lastCall.op = "rx_burst" =>
        LET t      == lastCall.trace
            allocs == SelectSeq(t, IsGoodAlloc)
            reads  == SelectSeq(t, IsRead)
            frees  == SelectSeq(t, IsFree)
        IN  /\ Len(reads) = Len(allocs)
            /\ \A j \in 1 .. Len(allocs) :
                  allocs[j].buf = j - 1 /\ reads[j].buf = j - 1
            /\ Len(allocs) = lastCall.ret + Len(frees)
            /\ Len(frees) <= 1
            /\ \A m \in 1 .. Len(frees) :
                  /\ \E j \in 1 .. Len(reads) :
                        reads[j].buf = frees[m].buf /\ reads[j].res <= 0
                  /\ \A j \in 1 .. Len(lastCall.mbufs) :
                        lastCall.mbufs[j].buf /= frees[m].buf
            /\ \A j \in 1 .. Len(t) :
                  /\ (t[j].call = "alloc" /\ t[j].res /= 0) => j = Len(t)
                  /\ (IsRead(t[j]) /\ t[j].res <= 0) =>
                        j + 1 = Len(t) /\ IsFree(t[j + 1]) /\ t[j + 1].buf = t[j].buf

\* A receive that returned one frame and released the buffer of its second read.
C18_Witness ==
    /\ lastCall.op = "rx_burst" /\ lastCall.nb = 2 /\ lastCall.ret = 1
    /\ SelectSeq(lastCall.trace, IsFree) /= <<>>

\* C19: stats_get fills the per-queue entries of the indices below
\* min(nb_queues, RTE_ETHDEV_QUEUE_STAT_CNTRS) and no other, and every total
\* it reports is the sum of the queues' counters over exactly those indices.
C19_StatsClipped ==
    lastCall.op = "stats_get" =>
        LET s    == lastCall.stats
            imax == IF nb_queues < RTE_ETHDEV_QUEUE_STAT_CNTRS
                    THEN nb_queues ELSE RTE_ETHDEV_QUEUE_STAT_CNTRS
            idx  == 0 .. (RTE_ETHDEV_QUEUE_STAT_CNTRS - 1)
        IN  /\ DOMAIN s.q_ipackets = idx /\ DOMAIN s.q_ibytes = idx
            /\ DOMAIN s.q_opackets = idx /\ DOMAIN s.q_obytes = idx
            /\ DOMAIN s.q_errors = idx
            /\ \A i \in idx :
                  IF i < imax
                  THEN /\ s.q_ipackets[i] = rxq[i].stats.ipackets
                       /\ s.q_ibytes[i] = rxq[i].stats.ibytes
                       /\ s.q_opackets[i] = txq[i].stats.opackets
                       /\ s.q_obytes[i] = txq[i].stats.obytes
                       /\ s.q_errors[i] = txq[i].stats.errs
                  ELSE /\ s.q_ipackets[i] = 0 /\ s.q_ibytes[i] = 0
                       /\ s.q_opackets[i] = 0 /\ s.q_obytes[i] = 0
                       /\ s.q_errors[i] = 0
            /\ s.ipackets = SumFn([i \in Qs |-> rxq[i].stats.ipackets], imax)
            /\ s.ibytes = SumFn([i \in Qs |-> rxq[i].stats.ibytes], imax)
            /\ s.opackets = SumFn([i \in Qs |-> txq[i].stats.opackets], imax)
            /\ s.obytes = SumFn([i \in Qs |-> txq[i].stats.obytes], imax)
            /\ s.oerrors = SumFn([i \in Qs |-> txq[i].stats.errs], imax)

\* A stats_get that reported frames while a queue beyond the per-queue entries
\* had counted frames of its own.
C19_Witness ==
    /\ lastCall.op = "stats_get"
    /\ lastCall.stats.ipackets + lastCall.stats.opackets > 0
    /\ \E i \in Qs : /\ i >= RTE_ETHDEV_QUEUE_STAT_CNTRS
                     /\ rxq[i].stats.ipackets + txq[i].stats.opackets > 0

---------------------------------------------------------------------------
(* Properties of creation and removal (SpecCreate, SpecTun) and of failed  *)
(* queue setups (Spec).                                                    *)

\* C11: after rte_pmd_tap_remove of an existing device, no descriptor that a
\* queue of the device owned (opened at creation or by any RX or TX queue
\* setup) remains open.
C11_RemoveClosesAll ==
    [][(allocated /\ lastCall'.op = "pmd_remove") =>
          \A n \in FdNums : (kfd[n].open /\ kfd[n].owner \in Qs) => ~kfd'[n].open]_vars

\* C12: a queue setup for queue i that fails (queue id out of range, no pool,
\* pool too small, channel not opened) leaves the descriptor slots of queue i
\* as they were, publishes nothing in rx_queues/tx_queues, and leaves every
\* other queue's slots and every queue's counters unchanged.
C12_FailedSetupChangesNothing ==
    [][(lastCall'.op \in SetupOps /\ lastCall'.ret /= 0) =>
          /\ fds' = fds
          /\ \A j \in Qs : /\ rxq'[j].fd = rxq[j].fd
                           /\ txq'[j].fd = txq[j].fd
                           /\ rxq'[j].stats = rxq[j].stats
                           /\ txq'[j].stats = txq[j].stats
          /\ rx_queues' = rx_queues
          /\ tx_queues' = tx_queues
          /\ OpenFds(kfd') = OpenFds(kfd)]_vars

\* A setup of an unassigned, unpublished queue failed after it had opened a
\* channel, while another queue holds an open descriptor.
C12_Witness ==
    /\ lastCall.op \in SetupOps /\ lastCall.ret = -1
    /\ SelectSeq(lastCall.trace, IsOpenCall) /= <<>>
    /\ lastCall.trace[1].res >= 0
    /\ lastCall.qid \in Qs
    /\ Slots(lastCall.qid) = {-1}
    /\ ~rx_queues[lastCall.qid] /\ ~tx_queues[lastCall.qid]
    /\ OpenFds(kfd) /= {}

IsSetIff(x) == x.call = "TUNSETIFF"
IsGoodGetFeatures(x) == x.call = "TUNGETFEATURES" /\ x.res = 0

IsGoodOpen(x) == x.call = "open" /\ x.res >= 0

\* C14: when eth_dev_tap_create fails after it opened the first channel
\* (capability query, capability mismatch, TUNSETIFF, O_NONBLOCK, MAC address),
\* no descriptor opened during that attempt remains open; when it succeeds,
\* the descriptor of queue 0 is non-blocking.
C14_FailedCreateClosesChannel ==
    lastCall.op = "eth_dev_tap_create" =>
        /\ lastCall.ret /= 0 =>
              LET opened == SelectSeq(lastCall.trace, IsGoodOpen) IN
              \A j \in 1 .. Len(opened) : ~kfd[opened[j].res].open
        /\ lastCall.ret = 0 =>
              /\ IsOpen(kfd, fds[0])
              /\ kfd[fds[0]].nonblock

---------------------------------------------------------------------------
(* Properties of the workers (SpecWorkers).                                *)

\* C20: a step of the RX worker of queue i changes nothing of the queues but
\* rxq[i].stats.ipackets / ibytes, a step of the TX worker of queue i nothing
\* but txq[i].stats.opackets / obytes / errs; and whenever a worker is between
\* two calls, its queue half's counters are what its own calls counted,
\* whatever the other workers did in between.
C20_CountersIsolated ==
    /\ [][\A w \in Workers : wk'[w] /= wk[w] =>
            LET i == w[2] IN
            IF w[1] = "rx"
            THEN /\ txq' = txq
                 /\ \A j \in Qs \ {i} : rxq'[j] = rxq[j]
                 /\ [rxq'[i] EXCEPT !.stats.ipackets = 0, !.stats.ibytes = 0]
                      = [rxq[i] EXCEPT !.stats.ipackets = 0, !.stats.ibytes = 0]
            ELSE /\ rxq' = rxq
                 /\ \A j \in Qs \ {i} : txq'[j] = txq[j]
                 /\ [txq'[i] EXCEPT !.stats.opackets = 0, !.stats.obytes = 0,
                                    !.stats.errs = 0]
                      = [txq[i] EXCEPT !.stats.opackets = 0, !.stats.obytes = 0,
                                       !.stats.errs = 0]]_vars
    /\ [](\A i \in Qs :
            /\ wk[<<"rx", i>>].pc = 0 =>
                  /\ rxq[i].stats.ipackets = wk[<<"rx", i>>].own.ipackets
                  /\ rxq[i].stats.ibytes = wk[<<"rx", i>>].own.ibytes
            /\ wk[<<"tx", i>>].pc = 0 =>
                  /\ txq[i].stats.opackets = wk[<<"tx", i>>].own.opackets
                  /\ txq[i].stats.obytes = wk[<<"tx", i>>].own.obytes
                  /\ txq[i].stats.errs = wk[<<"tx", i>>].own.errs)

\* The two halves of queue 0 are in the middle of their first counter update
\* at once, each with a frame to add.
C20_Witness ==
    /\ wk[<<"rx", 0>>].pc = 2 /\ wk[<<"rx", 0>>].add[1] = 1
    /\ wk[<<"tx", 0>>].pc = 2 /\ wk[<<"tx", 0>>].add[1] = 1

---------------------------------------------------------------------------
(* Property of the closing paths (Spec).                                   *)

\* C21: over any sequence of queue release, stop and setup calls, every close
\* the driver issues names a descriptor that is open: no descriptor number the
\* device has closed is closed again.
C21_NoDoubleClose ==
    \A j \in 1 .. Len(lastCall.trace) :
        IsClose(lastCall.trace[j]) => lastCall.trace[j].res = 0

====
